---------------------------- MODULE Spec2Model ----------------------------
(***************************************************************************)
(* A model of backend/whatsapp.py: the process-wide browser session        *)
(* (_driver, get_driver) and the send procedure (send_whatsapp_message).   *)
(* Strings are sequences of Unicode code points.  The browser and the      *)
(* remote web UI are the environment: every call into them either returns  *)
(* or raises, chosen nondeterministically.                                 *)
(***************************************************************************)
EXTENDS Integers, Sequences, FiniteSets, TLC

VARIABLES
    _driver,        \* the module global _driver: None or a browser handle
    browsers,       \* the browsers the provider has launched, by handle
    pc,             \* each caller's position in get_driver / send_whatsapp_message
    op,             \* the function each caller has called
    args,           \* the arguments of the call in progress
    driver,         \* the local "driver" (of get_driver, then of send_whatsapp_message)
    locals,         \* text_enc, phone_digits, url of send_whatsapp_message
    trace,          \* the calls the caller made on the browser / the clock, in order
    outcome         \* how the call ended: a returned value or the raised error

vars == <<_driver, browsers, pc, op, args, driver, locals, trace, outcome>>

-----------------------------------------------------------------------------
(* Bounds *)

\* the longest phone string drawn as an input of the URL construction
MaxPhoneLen == 3
\* the longest message string drawn as an input of the URL construction
MaxMsgLen == 3
\* the number of browsers the provider can launch before it refuses
MaxBrowsers == 2
\* the number of callers (threads) of the module
NumCallers == 2

Callers == 1..NumCallers

None == 0

-----------------------------------------------------------------------------
(* Characters and strings *)

\* code points of the characters the model names
Ch == [space |-> 32, hash |-> 35, percent |-> 37, amp |-> 38, plus |-> 43,
       minus |-> 45, dot |-> 46, slash |-> 47, zero |-> 48, one |-> 49,
       nine |-> 57, colon |-> 58, eq |-> 61, qmark |-> 63, A |-> 65,
       F |-> 70, Z |-> 90, underscore |-> 95, a |-> 97, f |-> 102, z |-> 122,
       tilde |-> 126, eacute |-> 233, replacement |-> 65533]

\* the characters phone inputs are drawn from: '+', a digit, a letter
PhoneAlphabet == {Ch.plus, Ch.one, Ch.a}

\* the characters message inputs are drawn from:
\* ' ', '&', '?', '%', 'A' and the non-ASCII letter e-acute
MsgAlphabet == {Ch.space, Ch.amp, Ch.qmark, Ch.percent, Ch.A, Ch.eacute}

RECURSIVE Strings(_, _)
Strings(alphabet, n) ==
    IF n = 0 THEN {<< >>}
    ELSE LET shorter == Strings(alphabet, n - 1)
         IN  shorter \cup {Append(s, c) : s \in shorter, c \in alphabet}

\* "https://web.whatsapp.com"
LandingUrl == <<104, 116, 116, 112, 115, 58, 47, 47, 119, 101, 98, 46,
                119, 104, 97, 116, 115, 97, 112, 112, 46, 99, 111, 109>>

\* "/send?phone="
SendPath == <<47, 115, 101, 110, 100, 63, 112, 104, 111, 110, 101, 61>>

\* "&text="
TextKey == <<38, 116, 101, 120, 116, 61>>

-----------------------------------------------------------------------------
(* URL construction: send_whatsapp_message, lines 56-59 *)

\* a variant of Utf8Encode: the string encoded as Latin-1, one byte per character
Latin1Encode(c) == <<c>>

\* str.encode("utf-8") of one code point (below the surrogate range)
Utf8Encode(c) ==
    IF c < 128 THEN <<c>>
    ELSE IF c < 2048 THEN <<192 + (c \div 64), 128 + (c % 64)>>
    ELSE <<224 + (c \div 4096), 128 + ((c \div 64) % 64), 128 + (c % 64)>>

\* the bytes urllib.parse.quote leaves alone: letters, digits, "_.-~"
\* and the default safe character "/"
AlwaysSafe ==
    (Ch.A .. Ch.Z) \cup (Ch.a .. Ch.z) \cup (Ch.zero .. Ch.nine)
        \cup {Ch.underscore, Ch.dot, Ch.minus, Ch.tilde, Ch.slash}

\* one upper-case hexadecimal digit, as "%02X" prints it
HexDigit(n) == IF n < 10 THEN Ch.zero + n ELSE Ch.A + (n - 10)

\* a byte that is not safe becomes "%XX"
QuoteByte(b) ==
    IF b \in AlwaysSafe THEN <<b>>
    ELSE <<Ch.percent, HexDigit(b \div 16), HexDigit(b % 16)>>

RECURSIVE QuoteFromBytes(_)
QuoteFromBytes(bs) ==
    IF bs = << >> THEN << >>
    ELSE QuoteByte(Head(bs)) \o QuoteFromBytes(Tail(bs))

RECURSIVE Utf8EncodeAll(_)
Utf8EncodeAll(s) ==
    IF s = << >> THEN << >>
    ELSE Utf8Encode(Head(s)) \o Utf8EncodeAll(Tail(s))

\* urllib.parse.quote(message): percent-encode the UTF-8 bytes of the string
quote(message) == QuoteFromBytes(Utf8EncodeAll(message))

\* phone_e164.replace("+", ""): every occurrence of "+" is removed
RECURSIVE replace_plus(_)
replace_plus(s) ==
    IF s = << >> THEN << >>
    ELSE IF Head(s) = Ch.plus THEN replace_plus(Tail(s))
    ELSE <<Head(s)>> \o replace_plus(Tail(s))

\* the f-string of line 59
DeepLink(phone_digits, text_enc) ==
    LandingUrl \o SendPath \o phone_digits \o TextKey \o text_enc

-----------------------------------------------------------------------------
(* The calls and their arguments *)

\* the defaults of get_driver's parameters (line 21)
DefaultProfileDir == "./chrome_data"
DefaultHeadless == FALSE

\* the default of send_whatsapp_message's timeout (line 48)
DefaultTimeout == 30

\* the limit get_driver sets on a page load (line 42)
PageLoadTimeout == 60

\* the fixed pauses: after the landing page (line 66), after the compose
\* input was found (line 78), after the submission (line 100)
LandingSleep == 5
SettleSleep == 2
SentSleep == 2

\* the inputs the callers of the state machine pass
SendPhones == {<<Ch.plus, Ch.nine, Ch.one>>, <<Ch.nine, Ch.one>>}
SendMessages == {<<Ch.A>>, <<Ch.space, Ch.eacute>>}
Timeouts == {DefaultTimeout, 10}
ProfileDirs == {DefaultProfileDir, "./other_profile"}

\* the exceptions the browser and the provider raise
TimeoutException == "TimeoutException"
WebDriverException == "WebDriverException"
RuntimeError == "RuntimeError"

NoArgs ==
    [phone_e164 |-> << >>, message |-> << >>, wait_for_sent |-> FALSE,
     timeout |-> 0, persist_profile_dir |-> "", headless |-> FALSE]

NoLocals == [text_enc |-> << >>, phone_digits |-> << >>, url |-> << >>]

NoOutcome ==
    [kind |-> "none", handle |-> None, status |-> "", phone |-> << >>,
     error |-> "", site |-> ""]

\* one call on the browser handle h or on the clock
Event(call, h, url, t, exc) ==
    [call |-> call, handle |-> h, url |-> url, t |-> t, ok |-> exc = "", exc |-> exc]

Init ==
    /\ _driver = None
    /\ browsers = << >>
    /\ pc = [p \in Callers |-> "idle"]
    /\ op = [p \in Callers |-> ""]
    /\ args = [p \in Callers |-> NoArgs]
    /\ driver = [p \in Callers |-> None]
    /\ locals = [p \in Callers |-> NoLocals]
    /\ trace = [p \in Callers |-> << >>]
    /\ outcome = [p \in Callers |-> NoOutcome]

-----------------------------------------------------------------------------
(* Entering and leaving a call *)

\* a caller invokes send_whatsapp_message(phone_e164, message, wait_for_sent, timeout);
\* line 54 calls get_driver() with its defaults
CallSend(p, phone_e164, message, wait_for_sent, timeout) ==
    /\ pc[p] = "idle"
    /\ pc' = [pc EXCEPT ![p] = "gd_check"]
    /\ op' = [op EXCEPT ![p] = "send"]
    /\ args' = [args EXCEPT ![p] =
                    [phone_e164 |-> phone_e164, message |-> message,
                     wait_for_sent |-> wait_for_sent, timeout |-> timeout,
                     persist_profile_dir |-> DefaultProfileDir,
                     headless |-> DefaultHeadless]]
    /\ UNCHANGED <<_driver, browsers, driver, locals, trace, outcome>>

\* a caller invokes get_driver(persist_profile_dir, headless) directly
CallGetDriver(p, persist_profile_dir, headless) ==
    /\ pc[p] = "idle"
    /\ pc' = [pc EXCEPT ![p] = "gd_check"]
    /\ op' = [op EXCEPT ![p] = "get_driver"]
    /\ args' = [args EXCEPT ![p] =
                    [NoArgs EXCEPT !.persist_profile_dir = persist_profile_dir,
                                   !.headless = headless]]
    /\ UNCHANGED <<_driver, browsers, driver, locals, trace, outcome>>

\* an exception leaves the call: the frame's locals are gone
Raise(p, error, site) ==
    /\ pc' = [pc EXCEPT ![p] = "done"]
    /\ outcome' = [outcome EXCEPT ![p] =
                      [NoOutcome EXCEPT !.kind = "raised", !.error = error,
                                        !.site = site]]

\* the caller has its result or its exception and is free to call again
Finish(p) ==
    /\ pc[p] = "done"
    /\ pc' = [pc EXCEPT ![p] = "idle"]
    /\ op' = [op EXCEPT ![p] = ""]
    /\ args' = [args EXCEPT ![p] = NoArgs]
    /\ driver' = [driver EXCEPT ![p] = None]
    /\ locals' = [locals EXCEPT ![p] = NoLocals]
    /\ trace' = [trace EXCEPT ![p] = << >>]
    /\ outcome' = [outcome EXCEPT ![p] = NoOutcome]
    /\ UNCHANGED <<_driver, browsers>>

-----------------------------------------------------------------------------
(* get_driver, lines 21-45 *)

\* "return driver" / "return _driver": to get_driver's caller
GdReturn(p, h) ==
    IF op[p] = "get_driver"
    THEN /\ pc' = [pc EXCEPT ![p] = "done"]
         /\ driver' = [driver EXCEPT ![p] = None]
         /\ outcome' = [outcome EXCEPT ![p] =
                           [NoOutcome EXCEPT !.kind = "returned", !.handle = h]]
    ELSE /\ pc' = [pc EXCEPT ![p] = "build"]
         /\ driver' = [driver EXCEPT ![p] = h]
         /\ UNCHANGED outcome

\* a variant of GdCheck: the stored session is not looked at
GdCheckNoReuse(p) ==
    /\ pc[p] = "gd_check"
    /\ pc' = [pc EXCEPT ![p] = "gd_install"]
    /\ UNCHANGED <<_driver, browsers, op, args, driver, locals, trace, outcome>>

\* lines 26-28: if _driver: return _driver
GdCheck(p) ==
    /\ pc[p] = "gd_check"
    /\ IF _driver # None
       THEN GdReturn(p, _driver)
       ELSE /\ pc' = [pc EXCEPT ![p] = "gd_install"]
            /\ UNCHANGED <<driver, outcome>>
    /\ UNCHANGED <<_driver, browsers, op, args, locals, trace>>

\* lines 30-40: the options are built and the provider installs the driver binary
GdInstall(p) ==
    /\ pc[p] = "gd_install"
    /\ pc' = [pc EXCEPT ![p] = "gd_launch"]
    /\ UNCHANGED <<_driver, browsers, op, args, driver, locals, trace, outcome>>

GdInstallRaises(p) ==
    /\ pc[p] = "gd_install"
    /\ Raise(p, WebDriverException, "install")
    /\ UNCHANGED <<_driver, browsers, op, args, driver, locals, trace>>

\* a variant of GdLaunch: the browser is stored as soon as it is launched
GdLaunchStoresEarly(p) ==
    /\ pc[p] = "gd_launch"
    /\ Len(browsers) < MaxBrowsers
    /\ browsers' = Append(browsers,
                          [profile |-> args[p].persist_profile_dir,
                           headless |-> args[p].headless,
                           page_load_timeout |-> None])
    /\ driver' = [driver EXCEPT ![p] = Len(browsers) + 1]
    /\ _driver' = Len(browsers) + 1
    /\ pc' = [pc EXCEPT ![p] = "gd_timeout"]
    /\ UNCHANGED <<op, args, locals, trace, outcome>>

\* line 41: the provider launches a browser bound to the profile directory
GdLaunch(p) ==
    /\ pc[p] = "gd_launch"
    /\ Len(browsers) < MaxBrowsers
    /\ browsers' = Append(browsers,
                          [profile |-> args[p].persist_profile_dir,
                           headless |-> args[p].headless,
                           page_load_timeout |-> None])
    /\ driver' = [driver EXCEPT ![p] = Len(browsers) + 1]
    /\ pc' = [pc EXCEPT ![p] = "gd_timeout"]
    /\ UNCHANGED <<_driver, op, args, locals, trace, outcome>>

GdLaunchRaises(p) ==
    /\ pc[p] = "gd_launch"
    /\ Raise(p, WebDriverException, "Chrome")
    /\ UNCHANGED <<_driver, browsers, op, args, driver, locals, trace>>

\* line 42: driver.set_page_load_timeout(60)
GdSetTimeout(p) ==
    /\ pc[p] = "gd_timeout"
    /\ browsers' = [browsers EXCEPT ![driver[p]].page_load_timeout = PageLoadTimeout]
    /\ pc' = [pc EXCEPT ![p] = "gd_store"]
    /\ UNCHANGED <<_driver, op, args, driver, locals, trace, outcome>>

GdSetTimeoutRaises(p) ==
    /\ pc[p] = "gd_timeout"
    /\ Raise(p, WebDriverException, "set_page_load_timeout")
    /\ driver' = [driver EXCEPT ![p] = None]
    /\ UNCHANGED <<_driver, browsers, op, args, locals, trace>>

\* lines 44-45: _driver = driver; return driver
GdStore(p) ==
    /\ pc[p] = "gd_store"
    /\ _driver' = driver[p]
    /\ GdReturn(p, driver[p])
    /\ UNCHANGED <<browsers, op, args, locals, trace>>

-----------------------------------------------------------------------------
(* send_whatsapp_message, lines 48-101 *)

Log(p, events) == trace' = [trace EXCEPT ![p] = trace[p] \o events]

Goto(p, label) == pc' = [pc EXCEPT ![p] = label]

\* a variant of PhoneDigits: the phone string used as given
KeepPlus(phone_e164) == phone_e164

\* a variant of PhoneDigits: only a "+" at position 0 is removed
StripLeadingPlus(phone_e164) ==
    IF phone_e164 # << >> /\ Head(phone_e164) = Ch.plus
    THEN Tail(phone_e164)
    ELSE phone_e164

\* line 58: the phone string that goes into the URL
PhoneDigits(phone_e164) == replace_plus(phone_e164)

\* line 57: the message text that goes into the URL
TextEnc(message) == quote(message)

\* lines 56-59: text_enc, phone_digits and url
Build(p) ==
    /\ pc[p] = "build"
    /\ locals' = [locals EXCEPT ![p] =
                     [text_enc |-> TextEnc(args[p].message),
                      phone_digits |-> PhoneDigits(args[p].phone_e164),
                      url |-> DeepLink(PhoneDigits(args[p].phone_e164),
                                       TextEnc(args[p].message))]]
    /\ Goto(p, "nav1")
    /\ UNCHANGED <<_driver, browsers, op, args, driver, trace, outcome>>

\* line 62: driver.get(url) returns
Nav1(p) ==
    /\ pc[p] = "nav1"
    /\ Log(p, <<Event("get", driver[p], locals[p].url, 0, "")>>)
    /\ Goto(p, "wait_compose")
    /\ UNCHANGED <<_driver, browsers, op, args, driver, locals, outcome>>

\* lines 62-64: driver.get(url) raises; the exception is logged and dropped
Nav1Raises(p) ==
    /\ pc[p] = "nav1"
    /\ Log(p, <<Event("get", driver[p], locals[p].url, 0, WebDriverException)>>)
    /\ Goto(p, "landing")
    /\ UNCHANGED <<_driver, browsers, op, args, driver, locals, outcome>>

\* lines 65-66: the landing page loads, then time.sleep(5)
Landing(p) ==
    /\ pc[p] = "landing"
    /\ Log(p, <<Event("get", driver[p], LandingUrl, 0, ""),
                Event("sleep", None, << >>, LandingSleep, "")>>)
    /\ Goto(p, "nav2")
    /\ UNCHANGED <<_driver, browsers, op, args, driver, locals, outcome>>

\* line 65 raises inside the except block: the exception leaves the call
LandingRaises(p) ==
    /\ pc[p] = "landing"
    /\ Log(p, <<Event("get", driver[p], LandingUrl, 0, WebDriverException)>>)
    /\ Raise(p, WebDriverException, "get_landing")
    /\ UNCHANGED <<_driver, browsers, op, args, driver, locals>>

\* line 67: the one retry of driver.get(url) returns
Nav2(p) ==
    /\ pc[p] = "nav2"
    /\ Log(p, <<Event("get", driver[p], locals[p].url, 0, "")>>)
    /\ Goto(p, "wait_compose")
    /\ UNCHANGED <<_driver, browsers, op, args, driver, locals, outcome>>

\* a variant of Nav2Raises: the fallback is entered again
Nav2RaisesRetriesAgain(p) ==
    /\ pc[p] = "nav2"
    /\ Log(p, <<Event("get", driver[p], locals[p].url, 0, WebDriverException)>>)
    /\ Goto(p, "landing")
    /\ UNCHANGED <<_driver, browsers, op, args, driver, locals, outcome>>

\* line 67 raises inside the except block: the exception leaves the call
Nav2Raises(p) ==
    /\ pc[p] = "nav2"
    /\ Log(p, <<Event("get", driver[p], locals[p].url, 0, WebDriverException)>>)
    /\ Raise(p, WebDriverException, "get_retry")
    /\ UNCHANGED <<_driver, browsers, op, args, driver, locals>>

\* lines 69-78: the compose input is present within the timeout, then time.sleep(2)
WaitCompose(p) ==
    /\ pc[p] = "wait_compose"
    /\ Log(p, <<Event("until_presence", driver[p], << >>, args[p].timeout, ""),
                Event("sleep", None, << >>, SettleSleep, "")>>)
    /\ Goto(p, "wait_btn")
    /\ UNCHANGED <<_driver, browsers, op, args, driver, locals, outcome>>

\* a variant of WaitComposeRaises: the failed wait is ignored
WaitComposeRaisesIgnored(p, exc) ==
    /\ pc[p] = "wait_compose"
    /\ Log(p, <<Event("until_presence", driver[p], << >>, args[p].timeout, exc)>>)
    /\ Goto(p, "wait_btn")
    /\ UNCHANGED <<_driver, browsers, op, args, driver, locals, outcome>>

\* a variant of WaitComposeRaises: only a timeout is replaced by the RuntimeError
WaitComposeRaisesOnlyTimeout(p, exc) ==
    /\ pc[p] = "wait_compose"
    /\ Log(p, <<Event("until_presence", driver[p], << >>, args[p].timeout, exc)>>)
    /\ IF exc = TimeoutException
       THEN Raise(p, RuntimeError, "not_logged_in")
       ELSE Raise(p, exc, "until_presence")
    /\ UNCHANGED <<_driver, browsers, op, args, driver, locals>>

\* lines 79-80: whatever wait.until raised is replaced by the RuntimeError
WaitComposeRaises(p, exc) ==
    /\ pc[p] = "wait_compose"
    /\ Log(p, <<Event("until_presence", driver[p], << >>, args[p].timeout, exc)>>)
    /\ Raise(p, RuntimeError, "not_logged_in")
    /\ UNCHANGED <<_driver, browsers, op, args, driver, locals>>

\* lines 84-86: the send button is clickable within the timeout
WaitBtn(p) ==
    /\ pc[p] = "wait_btn"
    /\ Log(p, <<Event("until_clickable", driver[p], << >>, args[p].timeout, "")>>)
    /\ Goto(p, "click")
    /\ UNCHANGED <<_driver, browsers, op, args, driver, locals, outcome>>

\* a variant of WaitBtnRaises: no fallback, the exception leaves the call
WaitBtnRaisesPropagates(p, exc) ==
    /\ pc[p] = "wait_btn"
    /\ Log(p, <<Event("until_clickable", driver[p], << >>, args[p].timeout, exc)>>)
    /\ Raise(p, exc, "until_clickable")
    /\ UNCHANGED <<_driver, browsers, op, args, driver, locals>>

\* lines 84-89: wait.until raises; the except block takes over
WaitBtnRaises(p, exc) ==
    /\ pc[p] = "wait_btn"
    /\ Log(p, <<Event("until_clickable", driver[p], << >>, args[p].timeout, exc)>>)
    /\ Goto(p, "find_input")
    /\ UNCHANGED <<_driver, browsers, op, args, driver, locals, outcome>>

\* a variant of Click: after the click the enter-key path is run as well
ClickFallsThrough(p) ==
    /\ pc[p] = "click"
    /\ Log(p, <<Event("click", driver[p], << >>, 0, "")>>)
    /\ Goto(p, "find_input")
    /\ UNCHANGED <<_driver, browsers, op, args, driver, locals, outcome>>

\* lines 87-88: send_btn.click() returns
Click(p) ==
    /\ pc[p] = "click"
    /\ Log(p, <<Event("click", driver[p], << >>, 0, "")>>)
    /\ Goto(p, "final")
    /\ UNCHANGED <<_driver, browsers, op, args, driver, locals, outcome>>

\* a variant of ClickRaises: the failed click is taken for a submission
ClickRaisesSwallowed(p) ==
    /\ pc[p] = "click"
    /\ Log(p, <<Event("click", driver[p], << >>, 0, WebDriverException)>>)
    /\ Goto(p, "final")
    /\ UNCHANGED <<_driver, browsers, op, args, driver, locals, outcome>>

\* lines 87-89: send_btn.click() raises; the except block takes over
ClickRaises(p) ==
    /\ pc[p] = "click"
    /\ Log(p, <<Event("click", driver[p], << >>, 0, WebDriverException)>>)
    /\ Goto(p, "find_input")
    /\ UNCHANGED <<_driver, browsers, op, args, driver, locals, outcome>>

\* line 92: driver.find_element finds the compose input again
FindInput(p) ==
    /\ pc[p] = "find_input"
    /\ Log(p, <<Event("find_element", driver[p], << >>, 0, "")>>)
    /\ Goto(p, "send_keys")
    /\ UNCHANGED <<_driver, browsers, op, args, driver, locals, outcome>>

\* a variant of FindInputRaises: the exception is logged and dropped
FindInputRaisesSwallowed(p) ==
    /\ pc[p] = "find_input"
    /\ Log(p, <<Event("find_element", driver[p], << >>, 0, WebDriverException)>>)
    /\ Goto(p, "final")
    /\ UNCHANGED <<_driver, browsers, op, args, driver, locals, outcome>>

\* lines 92, 95-97: find_element raises; logged and raised again
FindInputRaises(p) ==
    /\ pc[p] = "find_input"
    /\ Log(p, <<Event("find_element", driver[p], << >>, 0, WebDriverException)>>)
    /\ Raise(p, WebDriverException, "find_element")
    /\ UNCHANGED <<_driver, browsers, op, args, driver, locals>>

\* lines 93-94: input_box.send_keys("\n") returns
SendKeys(p) ==
    /\ pc[p] = "send_keys"
    /\ Log(p, <<Event("send_keys", driver[p], << >>, 0, "")>>)
    /\ Goto(p, "final")
    /\ UNCHANGED <<_driver, browsers, op, args, driver, locals, outcome>>

\* a variant of SendKeysRaises: the exception is logged and dropped
SendKeysRaisesSwallowed(p) ==
    /\ pc[p] = "send_keys"
    /\ Log(p, <<Event("send_keys", driver[p], << >>, 0, WebDriverException)>>)
    /\ Goto(p, "final")
    /\ UNCHANGED <<_driver, browsers, op, args, driver, locals, outcome>>

\* the exception of the first failed send-button step of the call
SendButtonError(p) ==
    LET failed == {i \in 1..Len(trace[p]) :
                       /\ trace[p][i].call \in {"until_clickable", "click"}
                       /\ ~trace[p][i].ok}
    IN  trace[p][CHOOSE i \in failed : \A j \in failed : i <= j].exc

\* a variant of SendKeysRaises: the send button's exception is raised instead
SendKeysRaisesButtonError(p) ==
    /\ pc[p] = "send_keys"
    /\ Log(p, <<Event("send_keys", driver[p], << >>, 0, WebDriverException)>>)
    /\ Raise(p, SendButtonError(p), "until_clickable")
    /\ UNCHANGED <<_driver, browsers, op, args, driver, locals>>

\* lines 93, 95-97: send_keys raises; logged and raised again
SendKeysRaises(p) ==
    /\ pc[p] = "send_keys"
    /\ Log(p, <<Event("send_keys", driver[p], << >>, 0, WebDriverException)>>)
    /\ Raise(p, WebDriverException, "send_keys")
    /\ UNCHANGED <<_driver, browsers, op, args, driver, locals>>

\* a variant of Result: the stripped phone string is reported
ResultWithDigits(p) ==
    [NoOutcome EXCEPT !.kind = "returned", !.status = "sent",
                      !.phone = locals[p].phone_digits]

\* line 101: the returned dict
Result(p) ==
    [NoOutcome EXCEPT !.kind = "returned", !.status = "sent",
                      !.phone = args[p].phone_e164]

\* a variant of Final: the pause is made whatever the flag says
FinalAlwaysSleeps(p) ==
    /\ pc[p] = "final"
    /\ Log(p, <<Event("sleep", None, << >>, SentSleep, "")>>)
    /\ outcome' = [outcome EXCEPT ![p] = Result(p)]
    /\ Goto(p, "done")
    /\ UNCHANGED <<_driver, browsers, op, args, driver, locals>>

\* a variant of Final: with the flag set, delivery is waited for on the page
FinalChecksDelivery(p) ==
    /\ pc[p] = "final"
    /\ Log(p, IF args[p].wait_for_sent
              THEN <<Event("until_delivered", driver[p], << >>, args[p].timeout, "")>>
              ELSE << >>)
    /\ outcome' = [outcome EXCEPT ![p] = Result(p)]
    /\ Goto(p, "done")
    /\ UNCHANGED <<_driver, browsers, op, args, driver, locals>>

\* lines 99-101: the optional pause, then the result
Final(p) ==
    /\ pc[p] = "final"
    /\ Log(p, IF args[p].wait_for_sent
              THEN <<Event("sleep", None, << >>, SentSleep, "")>>
              ELSE << >>)
    /\ outcome' = [outcome EXCEPT ![p] = Result(p)]
    /\ Goto(p, "done")
    /\ UNCHANGED <<_driver, browsers, op, args, driver, locals>>

-----------------------------------------------------------------------------
(* The specifications *)

\* single-caller, sequential use: a call starts when no call is in progress
NoCallInProgress == \A q \in Callers : pc[q] = "idle"

Step(p) ==
    \/ GdCheck(p)
    \/ GdInstall(p)
    \/ GdInstallRaises(p)
    \/ GdLaunch(p)
    \/ GdLaunchRaises(p)
    \/ GdSetTimeout(p)
    \/ GdSetTimeoutRaises(p)
    \/ GdStore(p)
    \/ Build(p)
    \/ Nav1(p)
    \/ Nav1Raises(p)
    \/ Landing(p)
    \/ LandingRaises(p)
    \/ Nav2(p)
    \/ Nav2Raises(p)
    \/ WaitCompose(p)
    \/ \E exc \in {TimeoutException, WebDriverException} : WaitComposeRaises(p, exc)
    \/ WaitBtn(p)
    \/ \E exc \in {TimeoutException, WebDriverException} : WaitBtnRaises(p, exc)
    \/ Click(p)
    \/ ClickRaises(p)
    \/ FindInput(p)
    \/ FindInputRaises(p)
    \/ SendKeys(p)
    \/ SendKeysRaises(p)
    \/ Final(p)
    \/ Finish(p)

StartSend(p) ==
    /\ NoCallInProgress
    /\ \E phone_e164 \in SendPhones, message \in SendMessages,
          wait_for_sent \in BOOLEAN, timeout \in Timeouts :
            CallSend(p, phone_e164, message, wait_for_sent, timeout)

StartGetDriver(p) ==
    /\ NoCallInProgress
    /\ \E persist_profile_dir \in ProfileDirs, headless \in BOOLEAN :
            CallGetDriver(p, persist_profile_dir, headless)

Next == \E p \in Callers : StartSend(p) \/ StartGetDriver(p) \/ Step(p)

Spec == Init /\ [][Next]_vars

\* concurrent use: a caller starts a call whatever the other callers are doing;
\* the module takes no lock, so the steps of the calls interleave freely
ConcurrentSend(p) ==
    \E wait_for_sent \in BOOLEAN :
        CallSend(p, <<Ch.plus, Ch.nine, Ch.one>>, <<Ch.A>>, wait_for_sent,
                 DefaultTimeout)

ConcurrentGetDriver(p) ==
    \E persist_profile_dir \in ProfileDirs :
        CallGetDriver(p, persist_profile_dir, DefaultHeadless)

NextConc == \E p \in Callers : ConcurrentSend(p) \/ ConcurrentGetDriver(p) \/ Step(p)

SpecConc == Init /\ [][NextConc]_vars

\* the URL construction on its own: a send that holds the session and is about
\* to build the URL, for every phone and message within the bounds
InitUrl ==
    /\ _driver = 1
    /\ browsers = <<[profile |-> DefaultProfileDir, headless |-> DefaultHeadless,
                     page_load_timeout |-> PageLoadTimeout]>>
    /\ pc = [p \in Callers |-> IF p = 1 THEN "build" ELSE "idle"]
    /\ op = [p \in Callers |-> IF p = 1 THEN "send" ELSE ""]
    /\ \E phone_e164 \in Strings(PhoneAlphabet, MaxPhoneLen),
          message \in Strings(MsgAlphabet, MaxMsgLen) :
            args = [p \in Callers |->
                       IF p = 1
                       THEN [phone_e164 |-> phone_e164, message |-> message,
                             wait_for_sent |-> TRUE, timeout |-> DefaultTimeout,
                             persist_profile_dir |-> DefaultProfileDir,
                             headless |-> DefaultHeadless]
                       ELSE NoArgs]
    /\ driver = [p \in Callers |-> IF p = 1 THEN 1 ELSE None]
    /\ locals = [p \in Callers |-> NoLocals]
    /\ trace = [p \in Callers |-> << >>]
    /\ outcome = [p \in Callers |-> NoOutcome]

NextUrl == \E p \in Callers : Build(p) \/ Nav1(p) \/ Nav1Raises(p)

SpecUrl == InitUrl /\ [][NextUrl]_vars

\* the steps of send_whatsapp_message after get_driver returned
SendStep(p) ==
    \/ Build(p)
    \/ Nav1(p)
    \/ Nav1Raises(p)
    \/ Landing(p)
    \/ LandingRaises(p)
    \/ Nav2(p)
    \/ Nav2Raises(p)
    \/ WaitCompose(p)
    \/ \E exc \in {TimeoutException, WebDriverException} : WaitComposeRaises(p, exc)
    \/ WaitBtn(p)
    \/ \E exc \in {TimeoutException, WebDriverException} : WaitBtnRaises(p, exc)
    \/ Click(p)
    \/ ClickRaises(p)
    \/ FindInput(p)
    \/ FindInputRaises(p)
    \/ SendKeys(p)
    \/ SendKeysRaises(p)
    \/ Final(p)

\* two sends side by side: the same phone, message and timeout, the flag set
\* in the first and clear in the second, both holding the stored session and
\* about to build the URL; the browser answers each of them as it likes
InitPair ==
    /\ _driver = 1
    /\ browsers = <<[profile |-> DefaultProfileDir, headless |-> DefaultHeadless,
                     page_load_timeout |-> PageLoadTimeout]>>
    /\ pc = [p \in Callers |-> IF p \in {1, 2} THEN "build" ELSE "idle"]
    /\ op = [p \in Callers |-> IF p \in {1, 2} THEN "send" ELSE ""]
    /\ \E phone_e164 \in SendPhones, message \in SendMessages, timeout \in Timeouts :
            args = [p \in Callers |->
                       IF p \in {1, 2}
                       THEN [phone_e164 |-> phone_e164, message |-> message,
                             wait_for_sent |-> (p = 1), timeout |-> timeout,
                             persist_profile_dir |-> DefaultProfileDir,
                             headless |-> DefaultHeadless]
                       ELSE NoArgs]
    /\ driver = [p \in Callers |-> IF p \in {1, 2} THEN 1 ELSE None]
    /\ locals = [p \in Callers |-> NoLocals]
    /\ trace = [p \in Callers |-> << >>]
    /\ outcome = [p \in Callers |-> NoOutcome]

NextPair == \E p \in Callers : SendStep(p)

SpecPair == InitPair /\ [][NextPair]_vars

-----------------------------------------------------------------------------
(* Reading a URL back: what the receiver of the deep link sees.             *)
(* These operators are the yardstick of the URL properties, not the code.   *)

IndexOf(s, c) ==
    IF \E i \in 1..Len(s) : s[i] = c
    THEN CHOOSE i \in 1..Len(s) : s[i] = c /\ \A j \in 1..(i - 1) : s[j] # c
    ELSE 0

\* the pieces of s between the occurrences of c
RECURSIVE Split(_, _)
Split(s, c) ==
    LET i == IndexOf(s, c)
    IN  IF i = 0 THEN <<s>>
        ELSE <<SubSeq(s, 1, i - 1)>> \o Split(SubSeq(s, i + 1, Len(s)), c)

\* the query of a URL: after the first "?", up to a "#"
QueryOf(url) ==
    LET q == IndexOf(url, Ch.qmark)
        rest == SubSeq(url, q + 1, Len(url))
        h == IndexOf(rest, Ch.hash)
    IN  IF q = 0 THEN << >>
        ELSE IF h = 0 THEN rest ELSE SubSeq(rest, 1, h - 1)

StartsWith(s, prefix) ==
    Len(s) >= Len(prefix) /\ SubSeq(s, 1, Len(prefix)) = prefix

\* the raw value of the first "key=value" pair of the query, or Missing
Missing == <<0>>
QueryParam(url, key) ==
    LET pairs == Split(QueryOf(url), Ch.amp)
        hits == {i \in 1..Len(pairs) : StartsWith(pairs[i], Append(key, Ch.eq))}
    IN  IF hits = {} THEN Missing
        ELSE LET i == CHOOSE k \in hits : \A j \in hits : k <= j
             IN  SubSeq(pairs[i], Len(key) + 2, Len(pairs[i]))

PhoneKey == <<112, 104, 111, 110, 101>>
TextKeyName == <<116, 101, 120, 116>>

\* the value of a hexadecimal digit, or -1
HexValue(c) ==
    IF c \in Ch.zero .. Ch.nine THEN c - Ch.zero
    ELSE IF c \in Ch.A .. Ch.F THEN c - Ch.A + 10
    ELSE IF c \in Ch.a .. Ch.f THEN c - Ch.a + 10
    ELSE -1

\* percent-decoding to bytes: "%XY" is one byte, anything else stands for itself
RECURSIVE UnquoteToBytes(_)
UnquoteToBytes(s) ==
    IF s = << >> THEN << >>
    ELSE IF /\ s[1] = Ch.percent
            /\ Len(s) >= 3
            /\ HexValue(s[2]) >= 0
            /\ HexValue(s[3]) >= 0
         THEN <<16 * HexValue(s[2]) + HexValue(s[3])>>
                  \o UnquoteToBytes(SubSeq(s, 4, Len(s)))
         ELSE <<s[1]>> \o UnquoteToBytes(Tail(s))

IsContinuation(bs, i) == i <= Len(bs) /\ bs[i] \in 128..191

\* UTF-8 decoding; a byte that starts no valid sequence becomes U+FFFD
RECURSIVE Utf8Decode(_)
Utf8Decode(bs) ==
    IF bs = << >> THEN << >>
    ELSE IF bs[1] < 128 THEN <<bs[1]>> \o Utf8Decode(Tail(bs))
    ELSE IF bs[1] \in 194..223 /\ IsContinuation(bs, 2)
         THEN <<(bs[1] - 192) * 64 + (bs[2] - 128)>>
                  \o Utf8Decode(SubSeq(bs, 3, Len(bs)))
    ELSE IF /\ bs[1] \in 224..239
            /\ IsContinuation(bs, 2)
            /\ IsContinuation(bs, 3)
            /\ (bs[1] - 224) * 4096 + (bs[2] - 128) * 64 + (bs[3] - 128) >= 2048
         THEN <<(bs[1] - 224) * 4096 + (bs[2] - 128) * 64 + (bs[3] - 128)>>
                  \o Utf8Decode(SubSeq(bs, 4, Len(bs)))
    ELSE <<Ch.replacement>> \o Utf8Decode(Tail(bs))

\* percent-decoding of a query value
Unquote(s) == Utf8Decode(UnquoteToBytes(s))

-----------------------------------------------------------------------------
(* Reading a call's trace *)

IsSend(p) == op[p] = "send"

Done(p) == pc[p] = "done"

Returned(p) == Done(p) /\ outcome[p].kind = "returned"

Raised(p) == Done(p) /\ outcome[p].kind = "raised"

\* the positions of the trace where `call` was made, and where it raised
Calls(p, call) == {i \in 1..Len(trace[p]) : trace[p][i].call = call}
FailedCalls(p, call) == {i \in Calls(p, call) : ~trace[p][i].ok}
OkCalls(p, call) == {i \in Calls(p, call) : trace[p][i].ok}

\* the loads of the deep link and of the landing page
DeepLinkLoads(p) == {i \in Calls(p, "get") : trace[p][i].url # LandingUrl}
LandingLoads(p) == {i \in Calls(p, "get") : trace[p][i].url = LandingUrl}

\* the calls that try to submit the message
SubmitCalls == {"until_clickable", "click", "find_element", "send_keys"}
SubmitAttempts(p) == {i \in 1..Len(trace[p]) : trace[p][i].call \in SubmitCalls}

IsDigit(c) == c \in Ch.zero .. Ch.nine

\* '+' followed by digits only
IsPlusDigits(s) ==
    /\ Len(s) >= 2
    /\ s[1] = Ch.plus
    /\ \A i \in 2..Len(s) : IsDigit(s[i])

-----------------------------------------------------------------------------
(* Properties *)

\* C1: whenever send_whatsapp_message returns, the result is exactly
\* {status: "sent", phone: p} with p the phone string passed in, unmodified:
\* a leading "+" is still there although the URL was built without it.
C1_ResultIsSentWithOriginalPhone ==
    \A p \in Callers :
        (IsSend(p) /\ Returned(p)) =>
            /\ outcome[p] = [NoOutcome EXCEPT !.kind = "returned",
                                              !.status = "sent",
                                              !.phone = args[p].phone_e164]
            /\ \A i \in DeepLinkLoads(p) :
                   QueryParam(trace[p][i].url, PhoneKey) # Missing
                   /\ Ch.plus \notin
                          {QueryParam(trace[p][i].url, PhoneKey)[k] :
                               k \in 1..Len(QueryParam(trace[p][i].url, PhoneKey))}

\* a send given a phone with a leading "+" has returned its result
C1_Witness ==
    \E p \in Callers :
        /\ IsSend(p)
        /\ Returned(p)
        /\ args[p].phone_e164 # << >>
        /\ Head(args[p].phone_e164) = Ch.plus
        /\ outcome[p].phone = args[p].phone_e164
        /\ DeepLinkLoads(p) # {}

\* C2: for a phone input "+" followed by digits only, the phone parameter of
\* every deep-link URL the call navigates to is those digits: the leading "+"
\* removed, nothing else changed.
C2_PlusDigitsPhoneParam ==
    \A p \in Callers :
        IsPlusDigits(args[p].phone_e164) =>
            \A i \in DeepLinkLoads(p) :
                QueryParam(trace[p][i].url, PhoneKey) = Tail(args[p].phone_e164)

\* a call given "+11" has navigated to its deep link
C2_Witness ==
    \E p \in Callers :
        /\ args[p].phone_e164 = <<Ch.plus, Ch.one, Ch.one>>
        /\ DeepLinkLoads(p) # {}
        /\ QueryParam(trace[p][1].url, PhoneKey) = <<Ch.one, Ch.one>>

\* the input with a single "+" at position 0 removed
LeadingPlusRemoved(s) ==
    IF Len(s) >= 1 /\ s[1] = Ch.plus THEN SubSeq(s, 2, Len(s)) ELSE s

\* the input with every "+" removed
EveryPlusRemoved(s) == SelectSeq(s, LAMBDA c : c # Ch.plus)

\* C3 as stated: for every phone input string, the URL's phone parameter is
\* the input with only a single leading "+" stripped; every other "+" is kept.
C3_OnlyLeadingPlusStripped ==
    \A p \in Callers :
        \A i \in DeepLinkLoads(p) :
            QueryParam(trace[p][i].url, PhoneKey)
                = LeadingPlusRemoved(args[p].phone_e164)

\* C3 as amended: for every phone input string made of "+", digits and letters,
\* the URL's phone parameter is the input with every "+" removed, wherever it
\* stands; no other character is removed or changed.
C3_EveryPlusStripped ==
    \A p \in Callers :
        \A i \in DeepLinkLoads(p) :
            QueryParam(trace[p][i].url, PhoneKey)
                = EveryPlusRemoved(args[p].phone_e164)

\* a call given "1+a", a "+" in the middle, has navigated to its deep link
C3_Witness ==
    \E p \in Callers :
        /\ args[p].phone_e164 = <<Ch.one, Ch.plus, Ch.a>>
        /\ DeepLinkLoads(p) # {}
        /\ QueryParam(trace[p][1].url, PhoneKey) = <<Ch.one, Ch.a>>

\* C4: for every message string, the text parameter of the deep-link URL
\* percent-decodes to the original message exactly, and the encoded text
\* holds no raw space, "&" or "?".
C4_TextRoundTrip ==
    \A p \in Callers :
        \A i \in DeepLinkLoads(p) :
            /\ Unquote(QueryParam(trace[p][i].url, TextKeyName)) = args[p].message
            /\ \A k \in 1..Len(locals[p].text_enc) :
                   locals[p].text_enc[k] \notin {Ch.space, Ch.amp, Ch.qmark}

\* a call whose message holds "%", "&" and a non-ASCII letter has navigated
C4_Witness ==
    \E p \in Callers :
        /\ args[p].message = <<Ch.percent, Ch.amp, Ch.eacute>>
        /\ DeepLinkLoads(p) # {}
        /\ locals[p].text_enc = <<Ch.percent, Ch.zero + 2, Ch.zero + 5,
                                   Ch.percent, Ch.zero + 2, Ch.zero + 6,
                                   Ch.percent, Ch.A + 2, Ch.zero + 3,
                                   Ch.percent, Ch.A, Ch.nine>>
        /\ Unquote(QueryParam(trace[p][1].url, TextKeyName)) = args[p].message

LastEvent(p) == trace[p][Len(trace[p])]

\* the call that follows position i of the trace, or the call the caller is
\* about to make
NextCallAfter(p, i) ==
    IF i < Len(trace[p]) THEN trace[p][i + 1].call
    ELSE CASE pc[p] = "find_input" -> "find_element"
           [] pc[p] = "send_keys" -> "send_keys"
           [] pc[p] = "wait_btn" -> "until_clickable"
           [] pc[p] = "click" -> "click"
           [] pc[p] \in {"nav1", "landing", "nav2"} -> "get"
           [] pc[p] = "wait_compose" -> "until_presence"
           [] OTHER -> "none"

\* C5: if the compose input does not become present within the timeout, the
\* send fails with the not-authenticated error, makes no submission attempt
\* (no send-button wait or click, no compose-input lookup or key press), does
\* not wait for readiness again and returns no result.
C5_NoComposeNoSubmission ==
    \A p \in Callers :
        FailedCalls(p, "until_presence") # {} =>
            /\ Raised(p)
            /\ outcome[p].error = RuntimeError
            /\ outcome[p].site = "not_logged_in"
            /\ SubmitAttempts(p) = {}
            /\ Cardinality(Calls(p, "until_presence")) = 1
            /\ ~LastEvent(p).ok /\ LastEvent(p).call = "until_presence"

\* a send whose readiness wait timed out has ended
C5_Witness ==
    \E p \in Callers :
        /\ Done(p)
        /\ \E i \in FailedCalls(p, "until_presence") :
               trace[p][i].exc = TimeoutException
        /\ outcome[p].site = "not_logged_in"

\* C6: with the compose input present, a send-button wait that raises or a
\* click that raises is followed by the lookup of the compose input and the
\* enter key on it; when the key press succeeds the send returns "sent".
C6_EnterKeyFallback ==
    \A p \in Callers :
        /\ \A i \in FailedCalls(p, "until_clickable") \cup FailedCalls(p, "click") :
               /\ OkCalls(p, "until_presence") # {}
               /\ NextCallAfter(p, i) = "find_element"
        /\ \A i \in OkCalls(p, "find_element") :
               NextCallAfter(p, i) = "send_keys"
        /\ \A i \in OkCalls(p, "send_keys") :
               /\ i - 1 \in OkCalls(p, "find_element")
               /\ pc[p] \in {"final", "done"}
               /\ Done(p) => (Returned(p) /\ outcome[p].status = "sent")

\* a send whose send-button wait timed out has returned "sent" after the key press
C6_Witness ==
    \E p \in Callers :
        /\ Returned(p)
        /\ outcome[p].status = "sent"
        /\ FailedCalls(p, "until_clickable") # {}
        /\ OkCalls(p, "send_keys") # {}
        /\ OkCalls(p, "click") = {}

\* C7: in one send the deep link is loaded at most twice and the landing page
\* at most once; the landing page is loaded only right after the first
\* deep-link load raised; when it loads, the 5-unit pause and one retry of the
\* deep link follow; when it or the retry raises, the error leaves the call
\* with no further navigation, no readiness wait and no submission.
C7_SingleNavigationRetry ==
    \A p \in Callers :
        /\ Cardinality(DeepLinkLoads(p)) <= 2
        /\ Cardinality(LandingLoads(p)) <= 1
        /\ \A i \in DeepLinkLoads(p) : i \in {1, 4}
        /\ \A i \in LandingLoads(p) : i = 2 /\ 1 \in FailedCalls(p, "get")
        /\ (4 \in DeepLinkLoads(p)) =>
               /\ 1 \in FailedCalls(p, "get")
               /\ 2 \in OkCalls(p, "get") /\ 2 \in LandingLoads(p)
               /\ trace[p][3].call = "sleep" /\ trace[p][3].t = LandingSleep
        /\ (2 \in LandingLoads(p) /\ trace[p][2].ok /\ Done(p)) =>
               4 \in DeepLinkLoads(p)
        /\ \A i \in FailedCalls(p, "get") :
               i > 1 =>
                   /\ i = Len(trace[p])
                   /\ Raised(p)
                   /\ outcome[p].error = trace[p][i].exc
                   /\ outcome[p].site \in {"get_landing", "get_retry"}
        /\ (1 \in OkCalls(p, "get")) => Cardinality(Calls(p, "get")) = 1

\* a send whose first load raised and whose next loads succeeded returned "sent"
C7_Witness ==
    \E p \in Callers :
        /\ Returned(p)
        /\ outcome[p].status = "sent"
        /\ 1 \in FailedCalls(p, "get")
        /\ Cardinality(DeepLinkLoads(p)) = 2
        /\ Cardinality(LandingLoads(p)) = 1

\* the callers whose local driver is the handle get_driver handed to a send
HoldsSession(p) ==
    IsSend(p) /\ driver[p] # None /\ pc[p] \notin {"gd_timeout", "gd_store"}

\* every handle a call was given, and every handle a browser call went to, is
\* the stored one
OnlyStoredSessionUsed ==
    \A p \in Callers :
        /\ (op[p] = "get_driver" /\ Returned(p)) =>
               (outcome[p].handle = _driver /\ _driver # None)
        /\ HoldsSession(p) => driver[p] = _driver
        /\ \A i \in 1..Len(trace[p]) : trace[p][i].handle \in {None, _driver}

\* C8: once a session is stored, the stored handle never changes and the
\* provider launches no further browser; every later get_driver call, with
\* any arguments, returns that handle and every later send works on it,
\* whatever the earlier sends did.
C8_SessionReused ==
    [][/\ (_driver # None) => (_driver' = _driver /\ browsers' = browsers)
       /\ OnlyStoredSessionUsed']_vars

\* a get_driver call with other arguments than the stored session was made
\* with has returned the stored handle
C8_Witness ==
    \E p \in Callers :
        /\ op[p] = "get_driver"
        /\ Returned(p)
        /\ outcome[p].handle = _driver
        /\ _driver # None
        /\ browsers[_driver].profile # args[p].persist_profile_dir
        /\ browsers[_driver].headless # args[p].headless

\* how a send ended
IsResult(p) ==
    /\ Returned(p)
    /\ outcome[p] = [NoOutcome EXCEPT !.kind = "returned", !.status = "sent",
                                      !.phone = outcome[p].phone]
    /\ \E i \in OkCalls(p, "click") \cup OkCalls(p, "send_keys") :
           \A j \in (i + 1)..Len(trace[p]) : trace[p][j].call = "sleep"

IsNavigationFailure(p) ==
    /\ Raised(p)
    /\ outcome[p].site \in {"get_landing", "get_retry"}
    /\ LastEvent(p).call = "get" /\ ~LastEvent(p).ok

IsAuthenticationFailure(p) ==
    /\ Raised(p)
    /\ outcome[p].site = "not_logged_in"
    /\ LastEvent(p).call = "until_presence" /\ ~LastEvent(p).ok

IsSubmissionFailure(p) ==
    /\ Raised(p)
    /\ outcome[p].site \in {"find_element", "send_keys"}
    /\ LastEvent(p).call = outcome[p].site /\ ~LastEvent(p).ok

IsSessionFailure(p) ==
    /\ Raised(p)
    /\ outcome[p].site \in {"install", "Chrome", "set_page_load_timeout"}
    /\ trace[p] = << >>
    /\ driver[p] = None

ExactlyOne(bs) == Cardinality({i \in 1..Len(bs) : bs[i]}) = 1

\* C9 as stated: every send ends in exactly one of four ways: a result record,
\* a navigation failure, an authentication/presence-wait failure or a
\* submission failure, the failure being the one of the step that failed.
C9_FourOutcomes ==
    \A p \in Callers :
        (IsSend(p) /\ Done(p)) =>
            ExactlyOne(<<IsResult(p), IsNavigationFailure(p),
                         IsAuthenticationFailure(p), IsSubmissionFailure(p)>>)

\* C9 as amended: every send ends in exactly one of five ways: a result
\* record, a failure to acquire the session (the provider raised inside
\* get_driver, before any navigation), a navigation failure, an
\* authentication/presence-wait failure or a submission failure, the failure
\* being the one of the step that failed.
C9_FiveOutcomes ==
    \A p \in Callers :
        (IsSend(p) /\ Done(p)) =>
            ExactlyOne(<<IsResult(p), IsSessionFailure(p), IsNavigationFailure(p),
                         IsAuthenticationFailure(p), IsSubmissionFailure(p)>>)

\* a send has ended because the provider could not launch the browser
C9_Witness ==
    \E p \in Callers :
        /\ IsSend(p)
        /\ Done(p)
        /\ IsSessionFailure(p)
        /\ outcome[p].site = "Chrome"

\* the errors the procedure recovers from
IsFirstNavigation(p, i) == i = 1 /\ trace[p][i].call = "get"
IsSendButtonStep(p, i) == trace[p][i].call \in {"until_clickable", "click"}

AllFailedCalls(p) == {i \in 1..Len(trace[p]) : ~trace[p][i].ok}

\* C10 as stated: every error a step raises makes the send fail, except a
\* failure of the first deep-link navigation; no result is returned after
\* another step raised.
C10_OnlyNavigationRecovered ==
    \A p \in Callers :
        \A i \in AllFailedCalls(p) :
            (Done(p) /\ ~IsFirstNavigation(p, i)) => Raised(p)

\* C10 as amended: every error a step raises makes the send fail, except a
\* failure of the first deep-link navigation (recovered by the single
\* fallback-and-retry) and a failure of the send-button wait or click
\* (recovered by the enter-key fallback); any other error ends the call at
\* once, and no result is returned after it.
C10_NavigationAndSendButtonRecovered ==
    \A p \in Callers :
        /\ \A i \in AllFailedCalls(p) :
               (~IsFirstNavigation(p, i) /\ ~IsSendButtonStep(p, i)) =>
                   /\ Raised(p)
                   /\ i = Len(trace[p])
                   /\ outcome[p].error =
                          IF trace[p][i].call = "until_presence"
                          THEN RuntimeError
                          ELSE trace[p][i].exc
        /\ Returned(p) =>
               \A i \in AllFailedCalls(p) :
                   \/ IsFirstNavigation(p, i)
                   \/ IsSendButtonStep(p, i) /\ OkCalls(p, "send_keys") # {}

\* a send has returned its result although the click on the send button raised
C10_Witness ==
    \E p \in Callers :
        /\ IsSend(p)
        /\ Returned(p)
        /\ FailedCalls(p, "click") # {}
        /\ OkCalls(p, "send_keys") # {}

\* the failed calls of the enter-key fallback
FailedFallbackCalls(p) == FailedCalls(p, "find_element") \cup FailedCalls(p, "send_keys")
FailedSendButtonCalls(p) == FailedCalls(p, "until_clickable") \cup FailedCalls(p, "click")

\* C11: when the send-button path and the enter-key fallback both fail, the
\* send ends with the fallback's error, returns no result and makes no pause
\* after it; a submission failure is raised only when both paths failed.
C11_BothPathsFailed ==
    \A p \in Callers :
        /\ \A i \in FailedFallbackCalls(p) :
               /\ FailedSendButtonCalls(p) # {}
               /\ Raised(p)
               /\ outcome[p].error = trace[p][i].exc
               /\ outcome[p].site = trace[p][i].call
               /\ i = Len(trace[p])
        /\ (Raised(p) /\ outcome[p].site \notin
                {"install", "Chrome", "set_page_load_timeout",
                 "get_landing", "get_retry", "not_logged_in"}) =>
               /\ FailedSendButtonCalls(p) # {}
               /\ FailedFallbackCalls(p) # {}
               /\ outcome[p].site \in {"find_element", "send_keys"}

\* the send-button wait timed out, the key press raised, the send has failed
C11_Witness ==
    \E p \in Callers :
        /\ Raised(p)
        /\ outcome[p].site = "send_keys"
        /\ \E i \in FailedCalls(p, "until_clickable") :
               trace[p][i].exc = TimeoutException
        /\ FailedCalls(p, "send_keys") # {}
        /\ outcome[p].error = WebDriverException

\* the handle get_driver has handed to caller p, or None
GivenHandle(p) ==
    IF op[p] = "get_driver" /\ Returned(p) THEN outcome[p].handle
    ELSE IF HoldsSession(p) THEN driver[p]
    ELSE None

\* the browsers whose creation ran to the end of line 42
CreatedSessions ==
    {h \in 1..Len(browsers) : browsers[h].page_load_timeout = PageLoadTimeout}

\* C12: at most one browser session is created in the process, also when two
\* calls start while no session is stored: in every interleaving of their
\* steps one browser is created and the callers are given the same handle.
C12_AtMostOneSession ==
    /\ Cardinality(CreatedSessions) <= 1
    /\ \A p, q \in Callers :
           (GivenHandle(p) # None /\ GivenHandle(q) # None) =>
               GivenHandle(p) = GivenHandle(q)

\* the positions of a send after get_driver returned
SendLabels ==
    {"build", "nav1", "landing", "nav2", "wait_compose", "wait_btn", "click",
     "find_input", "send_keys", "final"}

\* the calls made on the browser (all but the pauses)
BrowserCalls(p) == {i \in 1..Len(trace[p]) : trace[p][i].call # "sleep"}

OkDeepLinkLoads(p) == {i \in DeepLinkLoads(p) : trace[p][i].ok}
OkSubmits(p) == OkCalls(p, "click") \cup OkCalls(p, "send_keys")

\* C13: within one send the steps come in the order session acquired,
\* deep-link navigation succeeded, compose input present, submit action,
\* result: every browser call goes to the stored session, the readiness wait
\* follows a successful deep-link load, every submit call follows the
\* successful readiness wait of the same call, and "sent" is returned only
\* after a click or a key press of the same call succeeded.
C13_StepOrder ==
    \A p \in Callers :
        /\ (pc[p] \in SendLabels) => (driver[p] # None /\ driver[p] = _driver)
        /\ \A i \in BrowserCalls(p) :
               /\ trace[p][i].handle # None
               /\ trace[p][i].handle = _driver
        /\ \A i \in Calls(p, "until_presence") :
               /\ \E j \in OkDeepLinkLoads(p) : j < i
               /\ \A j \in Calls(p, "get") : j < i
        /\ \A i \in SubmitAttempts(p) :
               \E j \in OkCalls(p, "until_presence") : j < i
        /\ (IsSend(p) /\ (pc[p] = "final" \/ Returned(p))) =>
               \E s \in OkSubmits(p) :
                   /\ \A i \in BrowserCalls(p) : i <= s
                   /\ \E w \in OkCalls(p, "until_presence") :
                          /\ w < s
                          /\ \E g \in OkDeepLinkLoads(p) : g < w

\* a send has returned "sent" after navigation, readiness wait and click
C13_Witness ==
    \E p \in Callers :
        /\ IsSend(p)
        /\ Returned(p)
        /\ outcome[p].status = "sent"
        /\ OkDeepLinkLoads(p) # {}
        /\ OkCalls(p, "until_presence") # {}
        /\ OkCalls(p, "click") # {}

\* the time units a trace spends in time.sleep
RECURSIVE SleepTotal(_)
SleepTotal(events) ==
    IF events = << >> THEN 0
    ELSE (IF Head(events).call = "sleep" THEN Head(events).t ELSE 0)
             + SleepTotal(Tail(events))

\* the timeout-bounded waits of a call
TimedWaits(p) == Calls(p, "until_presence") \cup Calls(p, "until_clickable")

FirstNavigationFailed(p) == 1 \in FailedCalls(p, "get")

\* C14: in one send the fixed pauses add up to at most 9 time units and at
\* most two timeout-bounded waits are started, one for the compose input and
\* one for the send button, each with the caller's full timeout.  A send that
\* returns has paused 5 (only if the first navigation failed) + 2 + 2 (only
\* if wait_for_sent is set); the 5-unit pause follows the landing-page load,
\* the first 2-unit pause follows the successful compose wait, the last one
\* follows a successful submit action with the flag set.
C14_SleepAndWaitBudget ==
    \A p \in Callers :
        /\ SleepTotal(trace[p]) <= 9
        /\ Cardinality(Calls(p, "until_presence")) <= 1
        /\ Cardinality(Calls(p, "until_clickable")) <= 1
        /\ \A i \in TimedWaits(p) : trace[p][i].t = args[p].timeout
        /\ (IsSend(p) /\ Returned(p)) =>
               SleepTotal(trace[p]) =
                   (IF FirstNavigationFailed(p) THEN 5 ELSE 0) + 2
                       + (IF args[p].wait_for_sent THEN 2 ELSE 0)
        /\ \A i \in Calls(p, "sleep") :
               /\ i > 1
               /\ \/ /\ trace[p][i].t = 5
                     /\ (i - 1) \in LandingLoads(p) /\ trace[p][i - 1].ok
                     /\ FirstNavigationFailed(p)
                  \/ /\ trace[p][i].t = 2
                     /\ (i - 1) \in OkCalls(p, "until_presence")
                  \/ /\ trace[p][i].t = 2
                     /\ (i - 1) \in OkSubmits(p)
                     /\ args[p].wait_for_sent
                     /\ i = Len(trace[p])
                     /\ Returned(p)

\* a send with the flag set has returned after the navigation fallback: 9 units
C14_Witness ==
    \E p \in Callers :
        /\ IsSend(p)
        /\ Returned(p)
        /\ FirstNavigationFailed(p)
        /\ args[p].wait_for_sent
        /\ args[p].timeout # DefaultTimeout
        /\ SleepTotal(trace[p]) = 9
        /\ Cardinality(TimedWaits(p)) = 2

\* the browser's answers to the calls of p, in order
BrowserEvents(p) == SelectSeq(trace[p], LAMBDA e : e.call # "sleep")
Responses(p) == [i \in 1..Len(BrowserEvents(p)) |-> BrowserEvents(p)[i].exc]

\* the answers given to p and to q do not contradict each other
SameResponses(p, q) ==
    \A i \in 1..Len(Responses(p)) :
        i <= Len(Responses(q)) => Responses(p)[i] = Responses(q)[i]

\* the trace of p without the pause that follows a submission
BeforeSentSleep(p) ==
    IF /\ trace[p] # << >>
       /\ LastEvent(p).call = "sleep"
       /\ Len(trace[p]) - 1 \in OkSubmits(p)
    THEN SubSeq(trace[p], 1, Len(trace[p]) - 1)
    ELSE trace[p]

SameRequest(p, q) ==
    /\ IsSend(p) /\ IsSend(q)
    /\ args[p].phone_e164 = args[q].phone_e164
    /\ args[p].message = args[q].message
    /\ args[p].timeout = args[q].timeout

\* C15: wait_for_sent decides the final pause and nothing else: two sends of
\* the same phone, message and timeout that get the same answers from the
\* browser and differ in the flag make the same calls in the same order, with
\* the same pauses before the result, and end with the same result or
\* failure; after the submit action no further call goes to the browser.
C15_FlagOnlyDelays ==
    \A p, q \in Callers :
        (/\ SameRequest(p, q)
         /\ args[p].wait_for_sent /\ ~args[q].wait_for_sent
         /\ Done(p) /\ Done(q)
         /\ SameResponses(p, q)) =>
            /\ BeforeSentSleep(p) = trace[q]
            /\ outcome[p] = outcome[q]
            /\ Returned(p) => /\ trace[p] = Append(trace[q], LastEvent(p))
                              /\ Len(trace[q]) \in OkSubmits(q)

\* both sends got the same answers, went through the enter-key fallback and
\* returned, the one with the flag set after one more pause
C15_Witness ==
    /\ SameRequest(1, 2)
    /\ args[1].wait_for_sent /\ ~args[2].wait_for_sent
    /\ Returned(1) /\ Returned(2)
    /\ SameResponses(1, 2)
    /\ FailedCalls(1, "until_clickable") # {}
    /\ Len(trace[1]) = Len(trace[2]) + 1
    /\ outcome[1] = outcome[2]

\* C16: in one send at most one submit action succeeds: the compose input is
\* looked up and the enter key pressed only after the send-button wait or the
\* click raised, and never after a click that succeeded.
C16_AtMostOneSubmit ==
    \A p \in Callers :
        /\ Cardinality(OkSubmits(p)) <= 1
        /\ Cardinality(Calls(p, "click")) <= 1
        /\ Cardinality(Calls(p, "send_keys")) <= 1
        /\ \A i \in Calls(p, "find_element") \cup Calls(p, "send_keys") :
               /\ \E j \in FailedSendButtonCalls(p) : j < i
               /\ OkCalls(p, "click") = {}
        /\ \A c \in OkCalls(p, "click") :
               /\ \A i \in SubmitAttempts(p) : i <= c
               /\ pc[p] \in {"final", "done"}

\* the click raised, the key press succeeded: one submit action in the call
C16_Witness ==
    \E p \in Callers :
        /\ Returned(p)
        /\ FailedCalls(p, "click") # {}
        /\ OkCalls(p, "send_keys") # {}
        /\ Cardinality(OkSubmits(p)) = 1

IsNotAuthenticated(p) ==
    Raised(p) /\ outcome[p].error = RuntimeError /\ outcome[p].site = "not_logged_in"

\* C17: the not-authenticated failure is raised exactly when the compose-input
\* wait did not complete: whatever that wait raised, a timeout or another
\* error, the call ends with the same RuntimeError, and a failure of the
\* navigation, of the submission or of get_driver is never reported so.
C17_NotAuthenticatedIffComposeWaitFailed ==
    \A p \in Callers :
        /\ FailedCalls(p, "until_presence") # {} => IsNotAuthenticated(p)
        /\ Raised(p) =>
               /\ IsNotAuthenticated(p) <=> FailedCalls(p, "until_presence") # {}
               /\ (outcome[p].error = RuntimeError) <=> (outcome[p].site = "not_logged_in")
               /\ IsNotAuthenticated(p) =>
                      /\ LastEvent(p).call = "until_presence"
                      /\ FailedCalls(p, "get") \subseteq {1}
                      /\ SubmitAttempts(p) = {}

\* the compose wait raised something other than a timeout and the call ended
\* with the not-authenticated failure
C17_Witness ==
    \E p \in Callers :
        /\ IsNotAuthenticated(p)
        /\ \E i \in FailedCalls(p, "until_presence") :
               trace[p][i].exc = WebDriverException

\* the places of get_driver where the provider can raise
ProviderSites == {"install", "Chrome", "set_page_load_timeout"}

FailedInGetDriver(p) == Raised(p) /\ outcome[p].site \in ProviderSites

\* nothing is stored by a get_driver that failed, and what is stored or handed
\* out went through all of lines 41-42
NoHalfInitialisedSession ==
    /\ \A p \in Callers :
           /\ FailedInGetDriver(p) =>
                  /\ _driver = None
                  /\ driver[p] = None
                  /\ trace[p] = << >>
           /\ GivenHandle(p) # None => GivenHandle(p) \in CreatedSessions
    /\ _driver # None => _driver \in CreatedSessions

\* C18: when get_driver fails before it returns (installing the driver,
\* launching the browser or setting the page-load limit), no session is
\* stored: _driver stays None, the send fails before any navigation, and the
\* next get_driver call goes on to create a session instead of returning a
\* half-initialised handle.
C18_FailedAcquireStoresNothing ==
    [][/\ NoHalfInitialisedSession'
       /\ \A p \in Callers :
              /\ (outcome[p].kind = "none" /\ FailedInGetDriver(p)') =>
                     (_driver = None /\ _driver' = None)
              /\ (pc[p] = "gd_check" /\ pc'[p] # "gd_check" /\ _driver = None) =>
                     (pc'[p] = "gd_install" /\ _driver' = None)]_vars

\* setting the page-load limit of the first browser raised; a later call
\* launched a second browser, and that one is the stored session
C18_Witness ==
    /\ Len(browsers) = 2
    /\ browsers[1].page_load_timeout = None
    /\ _driver = 2
    /\ \E p \in Callers : GivenHandle(p) = 2

=============================================================================
